---------------------------- MODULE Spec2Model ----------------------------
(***************************************************************************)
(* Blackjack: the rules engine of src/blackjack.py (command-line driver)   *)
(* and the session-backed round driver of src/app.py (web driver).         *)
(*                                                                         *)
(* Spec       one of the two programs runs (variable program): the web     *)
(*            handlers deal/hit/stand on the session, or main/play_round   *)
(*            of the command-line game.                                    *)
(* SpecScore  calculate_score applied to hands of up to MaxHandLen cards.   *)
(* SpecDeal   deal_card applied again and again to one deck.               *)
(***************************************************************************)
EXTENDS Integers, Sequences, FiniteSets, TLC

VARIABLES
    program,      \* which entry point runs: "app" (app.py) or "blackjack" (blackjack.py)
    session,      \* app.py: the Flask session (get_game)
    deck,         \* blackjack.py main: deck
    wins,         \* blackjack.py main: wins
    losses,       \* blackjack.py main: losses
    pushes,       \* blackjack.py main: pushes
    player_hand,  \* blackjack.py play_round: player_hand
    dealer_hand,  \* blackjack.py play_round: dealer_hand
    result,       \* blackjack.py main: result (0 before the first round)
    out,          \* blackjack.py: the last message printed in the round ("" if none)
    choice,       \* blackjack.py player_turn: choice (the last input, normalised)
    pc,           \* blackjack.py: the control point of main/play_round
    hand,         \* SpecScore: the argument of calculate_score
    score,        \* SpecScore: the value calculate_score returned
    dealt_from,   \* SpecDeal: the deck as it was handed to deal_card
    card,         \* SpecDeal: the card deal_card returned
    start,        \* SpecDrivers: the deck both drivers start the round from
    lines,        \* SpecDrivers: the player's choices, in order
    web,          \* SpecDrivers: app.py's session and the requests it took
    cli           \* SpecDrivers: play_round's hands, deck, result, lines read

webVars == <<session>>
cliVars == <<deck, wins, losses, pushes, player_hand, dealer_hand, result, out,
             choice, pc>>
scoreVars == <<hand, score>>
dealVars == <<dealt_from, card>>
driverVars == <<start, lines, web, cli>>
vars == <<program, session, deck, wins, losses, pushes, player_hand, dealer_hand,
          result, out, choice, pc, hand, score, dealt_from, card, start, lines,
          web, cli>>

(***************************************************************************)
(* Bounds of the model.                                                    *)
(***************************************************************************)
\* random.shuffle is bounded to the outcomes of MaxSeed random streams
MaxSeed == 2
\* app.py: rounds resolved per session (caps the session's counters)
MaxRecord == 5
\* blackjack.py: rounds played per run of main (caps wins, losses, pushes)
MaxRounds == 10
\* longest hand handed to calculate_score in SpecScore
MaxHandLen == 4
\* rounds played per run when every round is played to its end
MaxFairRounds == 9
\* SpecDrivers: the most hits the player asks for before standing
MaxHits == 3

(***************************************************************************)
(* Card constants (blackjack.py lines 7-15).                               *)
(***************************************************************************)
SUITS == <<"Hearts", "Diamonds", "Clubs", "Spades">>

RANKS == <<"2", "3", "4", "5", "6", "7", "8", "9", "10",
           "Jack", "Queen", "King", "Ace">>

VALUES == [r \in {RANKS[i] : i \in 1..Len(RANKS)} |->
             CASE r = "2" -> 2 [] r = "3" -> 3 [] r = "4" -> 4 [] r = "5" -> 5
               [] r = "6" -> 6 [] r = "7" -> 7 [] r = "8" -> 8 [] r = "9" -> 9
               [] r = "10" -> 10 [] r = "Jack" -> 10 [] r = "Queen" -> 10
               [] r = "King" -> 10 [] r = "Ace" -> 11]

\* every (rank, suit) combination
AllCards == {<<RANKS[r], SUITS[s]>> : r \in 1..Len(RANKS), s \in 1..Len(SUITS)}

\* the list comprehension of create_deck, before the shuffle:
\* [(rank, suit) for suit in SUITS for rank in RANKS]
UnshuffledDeck ==
    [i \in 1..(Len(SUITS) * Len(RANKS)) |->
        <<RANKS[((i - 1) % Len(RANKS)) + 1], SUITS[((i - 1) \div Len(RANKS)) + 1]>>]

(***************************************************************************)
(* random.shuffle(deck) (blackjack.py line 21): the Fisher-Yates shuffle   *)
(*     for i in reversed(range(1, len(x))):                                *)
(*         j = randbelow(i + 1); x[i], x[j] = x[j], x[i]                   *)
(* The random source is bounded: it is one of MaxSeed streams of a linear  *)
(* congruential generator, stream number seed starting at 120 * seed.      *)
(***************************************************************************)
NextRandom(x) == (75 * x + 74) % 65537

\* i is the 1-based position being filled, x the generator's state
RECURSIVE FisherYates(_, _, _)
FisherYates(list, i, x) ==
    IF i < 2 THEN list
    ELSE LET j == (x % i) + 1
         IN  FisherYates([list EXCEPT ![i] = list[j], ![j] = list[i]],
                         i - 1, NextRandom(x))

Shuffle(list, seed) == FisherYates(list, Len(list), NextRandom(120 * seed))

\* the decks create_deck can return (blackjack.py lines 18-22)
create_deck == {Shuffle(UnshuffledDeck, seed) : seed \in 1..MaxSeed}

(***************************************************************************)
(* calculate_score (blackjack.py lines 36-44).                             *)
(***************************************************************************)
RECURSIVE SumValues(_)
SumValues(h) ==
    IF h = <<>> THEN 0 ELSE VALUES[Head(h)[1]] + SumValues(Tail(h))

RECURSIVE CountAces(_)
CountAces(h) ==
    IF h = <<>> THEN 0
    ELSE (IF Head(h)[1] = "Ace" THEN 1 ELSE 0) + CountAces(Tail(h))

\* mutant: "if" for "while", at most one Ace is downgraded
DowngradeAces_once(s, aces) ==
    IF s > 21 /\ aces > 0 THEN s - 10 ELSE s

\* while score > 21 and aces > 0: score -= 10; aces -= 1
RECURSIVE DowngradeAces(_, _)
DowngradeAces(s, aces) ==
    IF s > 21 /\ aces > 0 THEN DowngradeAces(s - 10, aces - 1) ELSE s

\* mutant: each Ace is valued when it is met, 11 if the running total allows
RECURSIVE RunningScore(_, _)
RunningScore(h, total) ==
    IF h = <<>> THEN total
    ELSE IF Head(h)[1] = "Ace"
    THEN RunningScore(Tail(h), IF total + 11 <= 21 THEN total + 11 ELSE total + 1)
    ELSE RunningScore(Tail(h), total + VALUES[Head(h)[1]])

calculate_score_running(h) == RunningScore(h, 0)

calculate_score(h) == DowngradeAces(SumValues(h), CountAces(h))

(***************************************************************************)
(* deal_card (blackjack.py lines 47-51).  fresh is the deck create_deck    *)
(* returns if the refill happens.  list.pop() removes the last element.    *)
(***************************************************************************)
\* mutant: the refill happens one card too early (len(deck) <= 1)
deal_card_refill_early(d, fresh) ==
    LET full == IF Len(d) <= 1 THEN d \o fresh ELSE d
    IN  [deck |-> SubSeq(full, 1, Len(full) - 1), card |-> full[Len(full)]]

deal_card(d, fresh) ==
    LET full == IF d = <<>> THEN d \o fresh ELSE d
    IN  [deck |-> SubSeq(full, 1, Len(full) - 1), card |-> full[Len(full)]]

(***************************************************************************)
(* app.py: the web round driver.  The session is a record with the keys    *)
(* get_game sets (lines 68-79).                                            *)
(***************************************************************************)
\* get_game on a session that holds no deck yet
get_game(fresh) ==
    [deck |-> fresh, wins |-> 0, losses |-> 0, pushes |-> 0, game_over |-> TRUE,
     player |-> <<>>, dealer |-> <<>>,
     message |-> "Welcome! Press Deal to start."]

\* the session while blackjack.py runs instead (no request is ever served)
NoSession ==
    [deck |-> <<>>, wins |-> 0, losses |-> 0, pushes |-> 0, game_over |-> TRUE,
     player |-> <<>>, dealer |-> <<>>, message |-> ""]

\* mutant: a short deck is extended with the new deck, not replaced by it
deal_extends_short_deck(game, fresh) ==
    LET d0 == IF game.deck = <<>> \/ Len(game.deck) < 4
              THEN game.deck \o fresh ELSE game.deck
        c1 == deal_card(d0, fresh)
        c2 == deal_card(c1.deck, fresh)
        c3 == deal_card(c2.deck, fresh)
        c4 == deal_card(c3.deck, fresh)
        player == <<c1.card, c2.card>>
        dealer == <<c3.card, c4.card>>
        g == [game EXCEPT !.deck = c4.deck, !.player = player, !.dealer = dealer,
                          !.game_over = FALSE, !.message = ""]
        player_bj == calculate_score(player) = 21
        dealer_bj == calculate_score(dealer) = 21
    IN  IF player_bj \/ dealer_bj
        THEN IF player_bj /\ dealer_bj
             THEN [g EXCEPT !.game_over = TRUE,
                            !.message = "Both have Blackjack - Push!",
                            !.pushes = game.pushes + 1]
             ELSE IF player_bj
             THEN [g EXCEPT !.game_over = TRUE,
                            !.message = "Blackjack! You win!",
                            !.wins = game.wins + 1]
             ELSE [g EXCEPT !.game_over = TRUE,
                            !.message = "Dealer has Blackjack! Dealer wins.",
                            !.losses = game.losses + 1]
        ELSE g

\* mutant: the dealer's blackjack is tested first, so two naturals are a loss
deal_dealer_blackjack_first(game, fresh) ==
    LET d0 == IF game.deck = <<>> \/ Len(game.deck) < 4 THEN fresh ELSE game.deck
        c1 == deal_card(d0, fresh)
        c2 == deal_card(c1.deck, fresh)
        c3 == deal_card(c2.deck, fresh)
        c4 == deal_card(c3.deck, fresh)
        player == <<c1.card, c2.card>>
        dealer == <<c3.card, c4.card>>
        g == [game EXCEPT !.deck = c4.deck, !.player = player, !.dealer = dealer,
                          !.game_over = FALSE, !.message = ""]
        player_bj == calculate_score(player) = 21
        dealer_bj == calculate_score(dealer) = 21
    IN  IF player_bj \/ dealer_bj
        THEN IF dealer_bj
             THEN [g EXCEPT !.game_over = TRUE,
                            !.message = "Dealer has Blackjack! Dealer wins.",
                            !.losses = game.losses + 1]
             ELSE [g EXCEPT !.game_over = TRUE,
                            !.message = "Blackjack! You win!",
                            !.wins = game.wins + 1]
        ELSE g

\* deal (lines 113-145)
deal(game, fresh) ==
    LET d0 == IF game.deck = <<>> \/ Len(game.deck) < 4 THEN fresh ELSE game.deck
        c1 == deal_card(d0, fresh)
        c2 == deal_card(c1.deck, fresh)
        c3 == deal_card(c2.deck, fresh)
        c4 == deal_card(c3.deck, fresh)
        player == <<c1.card, c2.card>>
        dealer == <<c3.card, c4.card>>
        g == [game EXCEPT !.deck = c4.deck, !.player = player, !.dealer = dealer,
                          !.game_over = FALSE, !.message = ""]
        player_bj == calculate_score(player) = 21
        dealer_bj == calculate_score(dealer) = 21
    IN  IF player_bj \/ dealer_bj
        THEN IF player_bj /\ dealer_bj
             THEN [g EXCEPT !.game_over = TRUE,
                            !.message = "Both have Blackjack - Push!",
                            !.pushes = game.pushes + 1]
             ELSE IF player_bj
             THEN [g EXCEPT !.game_over = TRUE,
                            !.message = "Blackjack! You win!",
                            !.wins = game.wins + 1]
             ELSE [g EXCEPT !.game_over = TRUE,
                            !.message = "Dealer has Blackjack! Dealer wins.",
                            !.losses = game.losses + 1]
        ELSE g

\* mutant: the dealer also draws on 17 (<= for <)
RECURSIVE stand_loop_hits_17(_, _, _)
stand_loop_hits_17(d, dealer, fresh) ==
    IF calculate_score(dealer) <= 17
    THEN LET c == deal_card(d, fresh)
         IN  stand_loop_hits_17(c.deck, Append(dealer, c.card), fresh)
    ELSE [deck |-> d, dealer |-> dealer]

\* the dealer's loop of _stand (lines 186-187):
\* while calculate_score(dealer) < 17: dealer.append(deal_card(deck))
RECURSIVE stand_loop(_, _, _)
stand_loop(d, dealer, fresh) ==
    IF calculate_score(dealer) < 17
    THEN LET c == deal_card(d, fresh)
         IN  stand_loop(c.deck, Append(dealer, c.card), fresh)
    ELSE [deck |-> d, dealer |-> dealer]

\* mutant: a tie goes to the dealer (>= for >)
_stand_ties_lose(game, fresh) ==
    LET l == stand_loop(game.deck, game.dealer, fresh)
        g == [game EXCEPT !.deck = l.deck, !.dealer = l.dealer, !.game_over = TRUE]
        ps == calculate_score(game.player)
        ds == calculate_score(l.dealer)
    IN  IF ps > 21
        THEN [g EXCEPT !.message = "You busted! Dealer wins.",
                       !.losses = game.losses + 1]
        ELSE IF ds > 21
        THEN [g EXCEPT !.message = "Dealer busted! You win!",
                       !.wins = game.wins + 1]
        ELSE IF ps > ds
        THEN [g EXCEPT !.message = "You win!", !.wins = game.wins + 1]
        ELSE [g EXCEPT !.message = "Dealer wins!", !.losses = game.losses + 1]

\* _stand (lines 181-213)
_stand(game, fresh) ==
    LET l == stand_loop(game.deck, game.dealer, fresh)
        g == [game EXCEPT !.deck = l.deck, !.dealer = l.dealer, !.game_over = TRUE]
        ps == calculate_score(game.player)
        ds == calculate_score(l.dealer)
    IN  IF ps > 21
        THEN [g EXCEPT !.message = "You busted! Dealer wins.",
                       !.losses = game.losses + 1]
        ELSE IF ds > 21
        THEN [g EXCEPT !.message = "Dealer busted! You win!",
                       !.wins = game.wins + 1]
        ELSE IF ps > ds
        THEN [g EXCEPT !.message = "You win!", !.wins = game.wins + 1]
        ELSE IF ds > ps
        THEN [g EXCEPT !.message = "Dealer wins!", !.losses = game.losses + 1]
        ELSE [g EXCEPT !.message = "Push (tie)!", !.pushes = game.pushes + 1]

\* mutant: a bust also goes through _stand (>= 21 for == 21), so the dealer plays
hit_bust_plays_dealer(game, fresh) ==
    IF game.game_over THEN game
    ELSE LET c == deal_card(game.deck, fresh)
             player == Append(game.player, c.card)
             g == [game EXCEPT !.deck = c.deck, !.player = player]
             s == calculate_score(player)
         IN  IF s >= 21 THEN _stand(g, fresh) ELSE g

\* mutant: the branch for a score of 21 is missing
hit_no_implicit_stand(game, fresh) ==
    IF game.game_over THEN game
    ELSE LET c == deal_card(game.deck, fresh)
             player == Append(game.player, c.card)
             g == [game EXCEPT !.deck = c.deck, !.player = player]
             s == calculate_score(player)
         IN  IF s > 21
             THEN [g EXCEPT !.game_over = TRUE,
                            !.message = "You busted! Dealer wins.",
                            !.losses = game.losses + 1]
             ELSE g

\* mutant: the card drawn is put in front of the player's hand
hit_inserts_in_front(game, fresh) ==
    IF game.game_over THEN game
    ELSE LET c == deal_card(game.deck, fresh)
             player == <<c.card>> \o game.player
             g == [game EXCEPT !.deck = c.deck, !.player = player]
             s == calculate_score(player)
         IN  IF s > 21
             THEN [g EXCEPT !.game_over = TRUE,
                            !.message = "You busted! Dealer wins.",
                            !.losses = game.losses + 1]
             ELSE IF s = 21 THEN _stand(g, fresh)
             ELSE g

\* hit (lines 148-170)
hit(game, fresh) ==
    IF game.game_over THEN game
    ELSE LET c == deal_card(game.deck, fresh)
             player == Append(game.player, c.card)
             g == [game EXCEPT !.deck = c.deck, !.player = player]
             s == calculate_score(player)
         IN  IF s > 21
             THEN [g EXCEPT !.game_over = TRUE,
                            !.message = "You busted! Dealer wins.",
                            !.losses = game.losses + 1]
             ELSE IF s = 21 THEN _stand(g, fresh)
             ELSE g

\* mutant: the game_over guard is missing
stand_unguarded(game, fresh) == _stand(game, fresh)

\* stand (lines 173-178)
stand(game, fresh) ==
    IF game.game_over THEN game ELSE _stand(game, fresh)

\* one round as the browser drives it: POST /deal, then one POST /hit or
\* POST /stand per choice until the session is game_over (the page then
\* offers Deal only); sent counts the hit and stand requests
RECURSIVE requests(_, _, _, _)
requests(game, choices, sent, fresh) ==
    IF game.game_over \/ choices = <<>>
    THEN [game |-> game, sent |-> sent]
    ELSE requests(IF Head(choices) \in {"h", "hit"}
                  THEN hit(game, fresh)
                  ELSE stand(game, fresh),
                  Tail(choices), sent + 1, fresh)

web_round(game, choices, fresh) == requests(deal(game, fresh), choices, 0, fresh)

\* no round has been requested
NoRequests == [game |-> NoSession, sent |-> 0]

\* the three POST requests; the session's counters are capped at MaxRecord
Deal ==
    /\ program = "app"
    /\ session.wins + session.losses + session.pushes < MaxRecord
    /\ \E fresh \in create_deck : session' = deal(session, fresh)
    /\ UNCHANGED <<program, cliVars, scoreVars, dealVars, driverVars>>

Hit ==
    /\ program = "app"
    /\ \E fresh \in create_deck : session' = hit(session, fresh)
    /\ UNCHANGED <<program, cliVars, scoreVars, dealVars, driverVars>>

Stand ==
    /\ program = "app"
    /\ \E fresh \in create_deck : session' = stand(session, fresh)
    /\ UNCHANGED <<program, cliVars, scoreVars, dealVars, driverVars>>

(***************************************************************************)
(* blackjack.py: the command-line round driver.  pc is the point main has  *)
(* reached: "play_round" (line 170, about to play a round), "player_turn"  *)
(* (line 83, waiting for the player's choice), "dealer_turn" (line 99, the *)
(* dealer's loop test), "determine_winner" (line 157), "again" (line 181,  *)
(* waiting for the answer to Play again?), "done" (the loop was left),     *)
(* "off" (app.py runs instead).                                            *)
(***************************************************************************)
\* what input() can deliver: typed lines, or end of input
Inputs == {"h", "hit", "H", " Hit ", "s", "stand", "S ", "y", "n", "no", "N",
           "x", "", "EOF"}

\* input(...).strip().lower() on the lines of Inputs (the line "EOF" stands
\* for the EOFError, which both prompts catch)
StripLower(line) ==
    CASE line = "H" -> "h"
      [] line = " Hit " -> "hit"
      [] line = "S " -> "s"
      [] line = "N" -> "n"
      [] OTHER -> line

\* mutant: the loop does not break on 21
player_turn_head_prompts_on_21(hand_, out_) ==
    LET s == calculate_score(hand_)
    IN  IF s > 21 THEN [pc |-> "determine_winner", out |-> "You busted!"]
        ELSE [pc |-> "player_turn", out |-> out_]

\* the head of player_turn's loop (lines 72-80) and what follows a break
\* (play_round lines 153-157): where control goes with this hand
player_turn_head(hand_, out_) ==
    LET s == calculate_score(hand_)
    IN  IF s = 21 THEN [pc |-> "dealer_turn", out |-> "You hit 21!"]
        ELSE IF s > 21 THEN [pc |-> "determine_winner", out |-> "You busted!"]
        ELSE [pc |-> "player_turn", out |-> out_]

\* determine_winner (lines 103-125): the value returned and the line printed
determine_winner(player_hand_, dealer_hand_) ==
    LET player_score == calculate_score(player_hand_)
        dealer_score == calculate_score(dealer_hand_)
    IN  IF player_score > 21
        THEN [result |-> -1, out |-> "Dealer wins - you busted!"]
        ELSE IF dealer_score > 21
        THEN [result |-> 1, out |-> "You win - dealer busted!"]
        ELSE IF player_score > dealer_score
        THEN [result |-> 1, out |-> "You win!"]
        ELSE IF dealer_score > player_score
        THEN [result |-> -1, out |-> "Dealer wins!"]
        ELSE [result |-> 0, out |-> "It's a push (tie)!"]

\* the natural-blackjack check of play_round (lines 135-148)
natural_blackjack(player_hand_, dealer_hand_) ==
    LET player_bj == calculate_score(player_hand_) = 21
        dealer_bj == calculate_score(dealer_hand_) = 21
    IN  IF player_bj \/ dealer_bj
        THEN IF player_bj /\ dealer_bj
             THEN [natural |-> TRUE, result |-> 0,
                   out |-> "Both have Blackjack - it's a push!"]
             ELSE IF player_bj
             THEN [natural |-> TRUE, result |-> 1, out |-> "Blackjack! You win!"]
             ELSE [natural |-> TRUE, result |-> -1,
                   out |-> "Dealer has Blackjack! Dealer wins."]
        ELSE [natural |-> FALSE, result |-> 0, out |-> ""]

\* dealer_turn (lines 97-100) as a function of the deck and the hand
RECURSIVE dealer_turn(_, _, _)
dealer_turn(d, dealer_hand_, fresh) ==
    IF calculate_score(dealer_hand_) < 17
    THEN LET c == deal_card(d, fresh)
         IN  dealer_turn(c.deck, Append(dealer_hand_, c.card), fresh)
    ELSE [deck |-> d, dealer |-> dealer_hand_]

\* player_turn (lines 69-94) as a function of the deck, the hand and the
\* lines typed (already stripped and lowercased; at their end input() raises
\* EOFError and the choice is "s"); read counts the lines consumed
RECURSIVE player_turn(_, _, _, _, _)
player_turn(d, player_hand_, typed, read, fresh) ==
    LET s == calculate_score(player_hand_)
        stop == [deck |-> d, player |-> player_hand_, read |-> read]
    IN  IF s = 21 \/ s > 21 THEN stop
        ELSE IF typed = <<>> THEN stop
        ELSE IF Head(typed) \in {"h", "hit"}
        THEN LET c == deal_card(d, fresh)
             IN  player_turn(c.deck, Append(player_hand_, c.card), Tail(typed),
                             read + 1, fresh)
        ELSE IF Head(typed) \in {"s", "stand"}
        THEN [stop EXCEPT !.read = read + 1]
        ELSE player_turn(d, player_hand_, Tail(typed), read + 1, fresh)

\* play_round (lines 128-157) as a function of the deck and the lines typed
play_round(d, typed, fresh) ==
    LET c1 == deal_card(d, fresh)
        c2 == deal_card(c1.deck, fresh)
        c3 == deal_card(c2.deck, fresh)
        c4 == deal_card(c3.deck, fresh)
        ph == <<c1.card, c2.card>>
        dh == <<c3.card, c4.card>>
        bj == natural_blackjack(ph, dh)
        p == player_turn(c4.deck, ph, typed, 0, fresh)
        dl == IF calculate_score(p.player) <= 21
              THEN dealer_turn(p.deck, dh, fresh)
              ELSE [deck |-> p.deck, dealer |-> dh]
    IN  IF bj.natural
        THEN [deck |-> c4.deck, player |-> ph, dealer |-> dh,
              result |-> bj.result, read |-> 0]
        ELSE [deck |-> dl.deck, player |-> p.player, dealer |-> dl.dealer,
              result |-> determine_winner(p.player, dl.dealer).result,
              read |-> p.read]

\* no round has been played
NoRound == [deck |-> <<>>, player |-> <<>>, dealer |-> <<>>, result |-> 0, read |-> 0]

\* mutant: a push is not added to the record
Tally_push_uncounted(r) ==
    /\ result' = r
    /\ wins' = IF r = 1 THEN wins + 1 ELSE wins
    /\ losses' = IF r = 1 THEN losses ELSE IF r = -1 THEN losses + 1 ELSE losses
    /\ pushes' = pushes

\* main's bookkeeping of a round's result (lines 171-176)
Tally(r) ==
    /\ result' = r
    /\ wins' = IF r = 1 THEN wins + 1 ELSE wins
    /\ losses' = IF r = 1 THEN losses ELSE IF r = -1 THEN losses + 1 ELSE losses
    /\ pushes' = IF r = 1 \/ r = -1 THEN pushes ELSE pushes + 1

\* play_round up to the player's turn (lines 128-151)
PlayRound ==
    /\ program = "blackjack"
    /\ pc = "play_round"
    /\ \E fresh \in create_deck :
         LET c1 == deal_card(deck, fresh)
             c2 == deal_card(c1.deck, fresh)
             c3 == deal_card(c2.deck, fresh)
             c4 == deal_card(c3.deck, fresh)
             ph == <<c1.card, c2.card>>
             dh == <<c3.card, c4.card>>
             bj == natural_blackjack(ph, dh)
             head == player_turn_head(ph, "")
         IN  /\ deck' = c4.deck
             /\ player_hand' = ph
             /\ dealer_hand' = dh
             /\ IF bj.natural
                THEN /\ Tally(bj.result)
                     /\ out' = bj.out
                     /\ pc' = "again"
                ELSE /\ UNCHANGED <<result, wins, losses, pushes>>
                     /\ out' = head.out
                     /\ pc' = head.pc
    /\ UNCHANGED <<program, webVars, scoreVars, dealVars, driverVars, choice>>

\* mutant: a line that is neither hit nor stand is taken as a hit
PlayerChoice_invalid_hits ==
    /\ program = "blackjack"
    /\ pc = "player_turn"
    /\ \E line \in Inputs, fresh \in create_deck :
         LET ch == IF line = "EOF" THEN "s" ELSE StripLower(line)
         IN  /\ choice' = ch
             /\ IF ch \in {"s", "stand"}
                THEN /\ out' = "You stand."
                     /\ pc' = "dealer_turn"
                     /\ UNCHANGED <<deck, player_hand>>
                ELSE LET c == deal_card(deck, fresh)
                         ph == Append(player_hand, c.card)
                         head == player_turn_head(ph, out)
                     IN  /\ deck' = c.deck
                         /\ player_hand' = ph
                         /\ out' = head.out
                         /\ pc' = head.pc
    /\ UNCHANGED <<program, webVars, scoreVars, dealVars, driverVars, dealer_hand, result,
                   wins, losses, pushes>>

\* one pass of player_turn's loop from the prompt (lines 82-94, then 72-80)
PlayerChoice ==
    /\ program = "blackjack"
    /\ pc = "player_turn"
    /\ \E line \in Inputs, fresh \in create_deck :
         LET ch == IF line = "EOF" THEN "s" ELSE StripLower(line)
         IN  /\ choice' = ch
             /\ IF ch \in {"h", "hit"}
                THEN LET c == deal_card(deck, fresh)
                         ph == Append(player_hand, c.card)
                         head == player_turn_head(ph, out)
                     IN  /\ deck' = c.deck
                         /\ player_hand' = ph
                         /\ out' = head.out
                         /\ pc' = head.pc
                ELSE IF ch \in {"s", "stand"}
                THEN /\ out' = "You stand."
                     /\ pc' = "dealer_turn"
                     /\ UNCHANGED <<deck, player_hand>>
                ELSE /\ out' = "Invalid input. Please enter 'h' to hit or 's' to stand."
                     /\ UNCHANGED <<deck, player_hand, pc>>
    /\ UNCHANGED <<program, webVars, scoreVars, dealVars, driverVars, dealer_hand, result,
                   wins, losses, pushes>>

\* mutant: the card the dealer draws is not added to the hand
DealerDraw_drops_card ==
    /\ program = "blackjack"
    /\ pc = "dealer_turn"
    /\ calculate_score(dealer_hand) < 17
    /\ \E fresh \in create_deck :
         LET c == deal_card(deck, fresh)
         IN  /\ deck' = c.deck
             /\ dealer_hand' = dealer_hand
    /\ UNCHANGED <<program, webVars, scoreVars, dealVars, driverVars, player_hand, result, out,
                   choice, pc, wins, losses, pushes>>

\* dealer_turn (lines 97-100), one pass of the loop body
DealerDraw ==
    /\ program = "blackjack"
    /\ pc = "dealer_turn"
    /\ calculate_score(dealer_hand) < 17
    /\ \E fresh \in create_deck :
         LET c == deal_card(deck, fresh)
         IN  /\ deck' = c.deck
             /\ dealer_hand' = Append(dealer_hand, c.card)
    /\ UNCHANGED <<program, webVars, scoreVars, dealVars, driverVars, player_hand, result, out,
                   choice, pc, wins, losses, pushes>>

\* mutant: the dealer may also stop on 16 (the loop test is < 16)
DealerStop_on_16 ==
    /\ program = "blackjack"
    /\ pc = "dealer_turn"
    /\ ~(calculate_score(dealer_hand) < 16)
    /\ pc' = "determine_winner"
    /\ UNCHANGED <<program, webVars, scoreVars, dealVars, driverVars, deck, player_hand,
                   dealer_hand, result, out, choice, wins, losses, pushes>>

\* dealer_turn: the loop test fails and the function returns
DealerStop ==
    /\ program = "blackjack"
    /\ pc = "dealer_turn"
    /\ ~(calculate_score(dealer_hand) < 17)
    /\ pc' = "determine_winner"
    /\ UNCHANGED <<program, webVars, scoreVars, dealVars, driverVars, deck, player_hand,
                   dealer_hand, result, out, choice, wins, losses, pushes>>

\* play_round line 157 and main lines 171-176
DetermineWinner ==
    /\ program = "blackjack"
    /\ pc = "determine_winner"
    /\ LET w == determine_winner(player_hand, dealer_hand)
       IN  /\ Tally(w.result)
           /\ out' = w.out
    /\ pc' = "again"
    /\ UNCHANGED <<program, webVars, scoreVars, dealVars, driverVars, deck, player_hand,
                   dealer_hand, choice>>

\* main lines 180-186; the number of rounds is capped at MaxRounds
PlayAgain ==
    /\ program = "blackjack"
    /\ pc = "again"
    /\ \E line \in Inputs :
         LET again == IF line = "EOF" THEN "n" ELSE StripLower(line)
         IN  IF again \in {"n", "no"}
             THEN pc' = "done"
             ELSE /\ wins + losses + pushes < MaxRounds
                  /\ pc' = "play_round"
    /\ UNCHANGED <<program, webVars, scoreVars, dealVars, driverVars, deck, player_hand,
                   dealer_hand, result, out, choice, wins, losses, pushes>>

(***************************************************************************)
(* The two programs.                                                       *)
(***************************************************************************)
Init ==
    /\ program \in {"app", "blackjack"}
    /\ \E fresh \in create_deck :
         IF program = "app"
         THEN /\ session = get_game(fresh)
              /\ deck = <<>>
              /\ pc = "off"
              /\ out = ""
         ELSE /\ session = NoSession
              /\ deck = fresh
              /\ pc = "play_round"
              /\ out = "Welcome to Blackjack!"
    /\ wins = 0 /\ losses = 0 /\ pushes = 0
    /\ player_hand = <<>> /\ dealer_hand = <<>>
    /\ result = 0
    /\ choice = ""
    /\ hand = <<>> /\ score = 0
    /\ dealt_from = <<>> /\ card = <<>>
    /\ start = <<>> /\ lines = <<>> /\ web = NoRequests /\ cli = NoRound

Next ==
    \/ Deal
    \/ Hit
    \/ Stand
    \/ PlayRound
    \/ PlayerChoice
    \/ DealerDraw
    \/ DealerStop
    \/ DetermineWinner
    \/ PlayAgain

Spec == Init /\ [][Next]_vars

(***************************************************************************)
(* The rounds played to their end: the player answers every open round     *)
(* with hit or stand (a deal is pressed only on a resolved round), and     *)
(* blackjack.py, a sequential program, takes its next step.                *)
(***************************************************************************)
\* POST /deal on a session whose round is over
DealNext ==
    /\ session.game_over
    /\ session.wins + session.losses + session.pushes < MaxFairRounds
    /\ Deal

\* a line that player_turn accepts as hit or as stand
PlayerDecides == PlayerChoice /\ choice' \in {"h", "hit", "s", "stand"}

\* main lines 180-186, for at most MaxFairRounds rounds
PlayAgainNext ==
    /\ PlayAgain
    /\ pc' = "play_round" => wins + losses + pushes < MaxFairRounds

NextRounds ==
    \/ DealNext
    \/ Hit
    \/ Stand
    \/ PlayRound
    \/ PlayerChoice
    \/ DealerDraw
    \/ DealerStop
    \/ DetermineWinner
    \/ PlayAgainNext

\* the step that carries an open round on: app.py waits for the player's
\* hit or stand; blackjack.py is at the prompt of player_turn, in the
\* dealer's loop, or about to call determine_winner
RoundStep ==
    \/ Stand
    \/ Hit
    \/ PlayerDecides
    \/ DealerDraw
    \/ DealerStop
    \/ DetermineWinner

\* at most one disjunct of RoundStep is enabled in a state, so this is weak
\* fairness of each of them
Fairness == WF_vars(RoundStep)

SpecRounds == Init /\ [][NextRounds]_vars /\ Fairness

(***************************************************************************)
(* calculate_score on its own: hands are built card by card and scored.    *)
(* The cards come from thirteen, one of each rank (calculate_score reads   *)
(* the rank only), in every order and with repeats, so the hands scored    *)
(* are closed under reordering.                                            *)
(***************************************************************************)
InitScore ==
    /\ program = "calculate_score"
    /\ session = NoSession
    /\ deck = <<>> /\ pc = "off" /\ out = ""
    /\ wins = 0 /\ losses = 0 /\ pushes = 0
    /\ player_hand = <<>> /\ dealer_hand = <<>>
    /\ result = 0
    /\ choice = ""
    /\ hand = <<>> /\ score = calculate_score(<<>>)
    /\ dealt_from = <<>> /\ card = <<>>
    /\ start = <<>> /\ lines = <<>> /\ web = NoRequests /\ cli = NoRound

ScoreHand ==
    /\ program = "calculate_score"
    /\ Len(hand) < MaxHandLen
    /\ \E r \in 1..Len(RANKS) :
         hand' = Append(hand, <<RANKS[r], SUITS[(r % Len(SUITS)) + 1]>>)
    /\ score' = calculate_score(hand')
    /\ UNCHANGED <<program, webVars, cliVars, dealVars, driverVars>>

NextScore == ScoreHand

SpecScore == InitScore /\ [][NextScore]_vars

(***************************************************************************)
(* deal_card on its own: one deck, created by create_deck, is dealt from   *)
(* again and again, through its refills.                                   *)
(***************************************************************************)
InitDeal ==
    /\ program = "deal_card"
    /\ session = NoSession
    /\ deck \in create_deck
    /\ pc = "off" /\ out = ""
    /\ wins = 0 /\ losses = 0 /\ pushes = 0
    /\ player_hand = <<>> /\ dealer_hand = <<>>
    /\ result = 0
    /\ choice = ""
    /\ hand = <<>> /\ score = 0
    /\ dealt_from = <<>> /\ card = <<>>
    /\ start = <<>> /\ lines = <<>> /\ web = NoRequests /\ cli = NoRound

DealCard ==
    /\ program = "deal_card"
    /\ \E fresh \in create_deck :
         LET c == deal_card(deck, fresh)
         IN  /\ deck' = c.deck
             /\ card' = c.card
    /\ dealt_from' = deck
    /\ UNCHANGED <<program, webVars, scoreVars, driverVars, wins, losses, pushes,
                   player_hand, dealer_hand, result, out, choice, pc>>

NextDeal == DealCard

SpecDeal == InitDeal /\ [][NextDeal]_vars

(***************************************************************************)
(* The two round drivers side by side: one round of app.py (deal, then hit *)
(* and stand requests) and one round of blackjack.py (play_round) from the *)
(* same deck, with the same choices and the same refill deck.              *)
(***************************************************************************)
\* the decks a round can start from: what is left of a shuffled deck after
\* any number of pops
StartDecks == {SubSeq(f, 1, n) : f \in create_deck, n \in 0..Len(UnshuffledDeck)}

\* the player's choices: up to MaxHits hits, then stand
ChoiceSeqs == {[i \in 1..(k + 1) |-> IF i <= k THEN "h" ELSE "s"] : k \in 0..MaxHits}

InitDrivers ==
    /\ program = "drivers"
    /\ session = NoSession
    /\ deck = <<>> /\ pc = "off" /\ out = ""
    /\ wins = 0 /\ losses = 0 /\ pushes = 0
    /\ player_hand = <<>> /\ dealer_hand = <<>>
    /\ result = 0
    /\ choice = ""
    /\ hand = <<>> /\ score = 0
    /\ dealt_from = <<>> /\ card = <<>>
    /\ start \in StartDecks
    /\ lines \in ChoiceSeqs
    /\ web = NoRequests
    /\ cli = NoRound

\* both drivers play the round
PlayBoth ==
    /\ program = "drivers"
    /\ cli = NoRound
    /\ \E fresh \in create_deck :
         /\ web' = web_round([get_game(fresh) EXCEPT !.deck = start], lines, fresh)
         /\ cli' = play_round(start, lines, fresh)
    /\ UNCHANGED <<program, webVars, cliVars, scoreVars, dealVars, start, lines>>

NextDrivers == PlayBoth

SpecDrivers == InitDrivers /\ [][NextDrivers]_vars

(***************************************************************************)
(* Vocabulary of the properties.                                           *)
(***************************************************************************)
Elements(seq) == {seq[i] : i \in 1..Len(seq)}

NoDuplicates(seq) == Cardinality(Elements(seq)) = Len(seq)

IsPrefix(a, b) == Len(a) <= Len(b) /\ SubSeq(b, 1, Len(a)) = a

\* the round's outcome for the player, by the precedence of the rules
Outcome(ps, ds) ==
    IF ps > 21 THEN "Loss"
    ELSE IF ds > 21 THEN "Win"
    ELSE IF ps > ds THEN "Win"
    ELSE IF ds > ps THEN "Loss"
    ELSE "Push"

\* the session's record grows by exactly the counter of outcome o
SessionCounts(o) ==
    /\ session'.wins = session.wins + (IF o = "Win" THEN 1 ELSE 0)
    /\ session'.losses = session.losses + (IF o = "Loss" THEN 1 ELSE 0)
    /\ session'.pushes = session.pushes + (IF o = "Push" THEN 1 ELSE 0)

\* main's record grows by exactly the counter of outcome o, and result is its code
MainCounts(o) ==
    /\ wins' = wins + (IF o = "Win" THEN 1 ELSE 0)
    /\ losses' = losses + (IF o = "Loss" THEN 1 ELSE 0)
    /\ pushes' = pushes + (IF o = "Push" THEN 1 ELSE 0)
    /\ result' = (IF o = "Win" THEN 1 ELSE IF o = "Loss" THEN -1 ELSE 0)

\* what each message of app.py tells the player
MessageOutcome(m) ==
    CASE m \in {"You win!", "Dealer busted! You win!", "Blackjack! You win!"} -> "Win"
      [] m \in {"Dealer wins!", "You busted! Dealer wins.",
                "Dealer has Blackjack! Dealer wins."} -> "Loss"
      [] m \in {"Push (tie)!", "Both have Blackjack - Push!"} -> "Push"
      [] OTHER -> "none"

\* a step of the web driver in which an unresolved round is resolved by hit
\* or stand (a deal replaces both hands instead)
WebResolves ==
    /\ program = "app"
    /\ (Hit \/ Stand)
    /\ ~session.game_over
    /\ session'.game_over

\* a step of hit that appends a card to the player's hand
WebHitStep ==
    /\ program = "app"
    /\ Hit
    /\ ~session.game_over

(***************************************************************************)
(* C1.  Whenever a round is resolved by comparing the final scores         *)
(* (_stand in app.py, determine_winner in blackjack.py), the outcome is:   *)
(* Loss if the player's score exceeds 21; else Win if the dealer's exceeds *)
(* 21; else Win if the player's is higher; else Loss if the dealer's is    *)
(* higher; else Push.  In app.py the outcome is the message shown and the  *)
(* one counter incremented; in blackjack.py it is the value returned, the  *)
(* line printed and the counter main increments.                           *)
(***************************************************************************)
C1_Step ==
    /\ WebResolves =>
         LET o == Outcome(calculate_score(session'.player),
                          calculate_score(session'.dealer))
         IN  /\ MessageOutcome(session'.message) = o
             /\ SessionCounts(o)
    /\ (program = "blackjack" /\ pc = "determine_winner" /\ pc' # pc) =>
         LET o == Outcome(calculate_score(player_hand), calculate_score(dealer_hand))
         IN  /\ MainCounts(o)
             /\ pc' = "again"
             /\ out' \in (CASE o = "Win" -> {"You win!", "You win - dealer busted!"}
                            [] o = "Loss" -> {"Dealer wins!", "Dealer wins - you busted!"}
                            [] OTHER -> {"It's a push (tie)!"})

C1_OutcomePrecedence == [][C1_Step]_vars

\* a round of the web driver that the comparison resolved as a tie at 17 or more
C1_Witness ==
    /\ program = "app"
    /\ session.game_over
    /\ Len(session.player) >= 2
    /\ calculate_score(session.player) = calculate_score(session.dealer)
    /\ calculate_score(session.player) < 21
    /\ session.pushes >= 1

(***************************************************************************)
(* C2.  On the initial deal both hands hold exactly two cards; if either   *)
(* scores exactly 21 the round is resolved at once, with no player turn    *)
(* and no dealer turn: both 21 is a Push, only the player's a Win, only    *)
(* the dealer's a Loss.  If neither scores 21 the round enters the         *)
(* player's turn unresolved and no counter changes.                        *)
(***************************************************************************)
C2_Step ==
    /\ (program = "app" /\ Deal) =>
         LET p == session'.player
             d == session'.dealer
             pbj == calculate_score(p) = 21
             dbj == calculate_score(d) = 21
         IN  /\ Len(p) = 2 /\ Len(d) = 2
             /\ session'.game_over = (pbj \/ dbj)
             /\ (pbj /\ dbj) => SessionCounts("Push")
             /\ (pbj /\ ~dbj) => SessionCounts("Win")
             /\ (~pbj /\ dbj) => SessionCounts("Loss")
             /\ (~pbj /\ ~dbj) => SessionCounts("none")
             /\ (pbj \/ dbj) =>
                   MessageOutcome(session'.message) = Outcome(IF pbj THEN 21 ELSE 0,
                                                              IF dbj THEN 21 ELSE 0)
    /\ (program = "blackjack" /\ pc = "play_round" /\ pc' # pc) =>
         LET pbj == calculate_score(player_hand') = 21
             dbj == calculate_score(dealer_hand') = 21
         IN  /\ Len(player_hand') = 2 /\ Len(dealer_hand') = 2
             /\ (pbj /\ dbj) => (pc' = "again" /\ MainCounts("Push"))
             /\ (pbj /\ ~dbj) => (pc' = "again" /\ MainCounts("Win"))
             /\ (~pbj /\ dbj) => (pc' = "again" /\ MainCounts("Loss"))
             /\ (~pbj /\ ~dbj) =>
                   (pc' = "player_turn" /\ UNCHANGED <<wins, losses, pushes, result>>)

C2_NaturalBlackjack == [][C2_Step]_vars

\* both hands dealt a natural blackjack, resolved as a Push
C2_Witness ==
    /\ program = "app"
    /\ session.game_over
    /\ Len(session.player) = 2 /\ Len(session.dealer) = 2
    /\ calculate_score(session.player) = 21
    /\ calculate_score(session.dealer) = 21
    /\ session.pushes >= 1

(***************************************************************************)
(* C3.  Bust short-circuit: when a Hit brings the player's score above 21  *)
(* the round is resolved at once as a Loss and the dealer's hand is left   *)
(* as it was: no dealer card is dealt after the initial two.               *)
(***************************************************************************)
C3_Step ==
    /\ (WebHitStep /\ calculate_score(session'.player) > 21) =>
         /\ session'.game_over
         /\ SessionCounts("Loss")
         /\ MessageOutcome(session'.message) = "Loss"
         /\ session'.dealer = session.dealer
         /\ Len(session'.dealer) = 2
    /\ (program = "blackjack" /\ pc = "player_turn"
          /\ calculate_score(player_hand') > 21) =>
         /\ pc' = "determine_winner"
         /\ dealer_hand' = dealer_hand
    /\ (program = "blackjack" /\ pc = "determine_winner"
          /\ calculate_score(player_hand) > 21) =>
         /\ Len(dealer_hand) = 2
         /\ dealer_hand' = dealer_hand
         /\ pc' = "again"
         /\ MainCounts("Loss")

C3_BustShortCircuit == [][C3_Step]_vars

\* a bust that left a dealer standing below 17 on the two initial cards
C3_Witness ==
    /\ program = "app"
    /\ session.game_over
    /\ calculate_score(session.player) > 21
    /\ Len(session.dealer) = 2
    /\ calculate_score(session.dealer) < 17
    /\ session.losses >= 1

(***************************************************************************)
(* C4.  A Hit that brings the player's score to exactly 21 is an implicit  *)
(* Stand: in the same step the dealer's turn is run and the round is       *)
(* resolved exactly as an explicit Stand on the new hand would resolve it  *)
(* (in blackjack.py control passes to dealer_turn, which asks the player   *)
(* nothing more), so no round is ever waiting for the player with a score  *)
(* of 21.                                                                  *)
(***************************************************************************)
C4_Step ==
    /\ (WebHitStep /\ calculate_score(session'.player) = 21) =>
         /\ session'.game_over
         /\ calculate_score(session'.dealer) >= 17
         /\ IsPrefix(session.dealer, session'.dealer)
         /\ LET o == Outcome(21, calculate_score(session'.dealer))
            IN  SessionCounts(o) /\ MessageOutcome(session'.message) = o
         /\ \E fresh \in create_deck :
              session' = stand([session EXCEPT
                                  !.player = session'.player,
                                  !.deck = deal_card(session.deck, fresh).deck],
                               fresh)
    /\ (program = "blackjack" /\ pc = "player_turn"
          /\ calculate_score(player_hand') = 21) =>
         /\ pc' = "dealer_turn"
         /\ dealer_hand' = dealer_hand
    /\ (program = "app" /\ ~session'.game_over) =>
         calculate_score(session'.player) # 21
    /\ (program = "blackjack" /\ pc' = "player_turn") =>
         calculate_score(player_hand') # 21
    /\ (program = "blackjack" /\ pc \in {"dealer_turn", "determine_winner"}) =>
         /\ pc' \in {"dealer_turn", "determine_winner", "again"}
         /\ UNCHANGED <<player_hand, choice>>

C4_HitTo21Stands == [][C4_Step]_vars

\* a round resolved by a third card that made 21, after which the dealer drew
C4_Witness ==
    /\ program = "app"
    /\ session.game_over
    /\ Len(session.player) >= 3
    /\ calculate_score(session.player) = 21
    /\ Len(session.dealer) >= 3

(***************************************************************************)
(* C5.  Dealer policy: in the dealer's turn a card is dealt to the dealer  *)
(* only when the dealer's score is below 17, and the turn ends at the      *)
(* first score of 17 or more, a soft 17 included.  So a dealer at 17 or    *)
(* more draws no card, and after a completed dealer turn the dealer's      *)
(* score is at least 17.                                                   *)
(***************************************************************************)
\* every card of new beyond old was drawn on a score below 17
DrawnBelow17(old, new) ==
    /\ IsPrefix(old, new)
    /\ \A n \in Len(old)..(Len(new) - 1) : calculate_score(SubSeq(new, 1, n)) < 17

C5_Step ==
    /\ (WebResolves /\ calculate_score(session'.player) <= 21) =>
         /\ DrawnBelow17(session.dealer, session'.dealer)
         /\ calculate_score(session'.dealer) >= 17
         /\ calculate_score(session.dealer) >= 17 => session'.dealer = session.dealer
    /\ (program = "blackjack" /\ pc = "dealer_turn") =>
         /\ dealer_hand' # dealer_hand =>
              /\ calculate_score(dealer_hand) < 17
              /\ Len(dealer_hand') = Len(dealer_hand) + 1
              /\ IsPrefix(dealer_hand, dealer_hand')
         /\ calculate_score(dealer_hand) >= 17 =>
              (dealer_hand' = dealer_hand /\ pc' = "determine_winner")
         /\ pc' # pc =>
              (pc' = "determine_winner" /\ calculate_score(dealer_hand') >= 17)

C5_DealerPolicy == [][C5_Step]_vars

\* a dealer who stood on a soft 17 (an Ace counted as 11) without drawing
C5_Witness ==
    /\ program = "app"
    /\ session.game_over
    /\ calculate_score(session.player) < 21
    /\ Len(session.player) >= 2
    /\ Len(session.dealer) = 2
    /\ calculate_score(session.dealer) = 17
    /\ "Ace" \in {session.dealer[i][1] : i \in 1..Len(session.dealer)}
    /\ session.message \notin {"Dealer has Blackjack! Dealer wins.", "Blackjack! You win!"}

(***************************************************************************)
(* C6.  As claimed: in every resolved round the dealer's final score is at *)
(* least 17 or the dealer has drawn beyond the initial two cards, and a    *)
(* dealer whose two cards score 17 or more draws no further card.          *)
(***************************************************************************)
\* the round of the running program is resolved (and hands were dealt)
Resolved ==
    \/ program = "app" /\ session.game_over /\ Len(session.dealer) >= 2
    \/ program = "blackjack" /\ pc \in {"again", "done"}

\* the hands of the running program
PlayerNow == IF program = "app" THEN session.player ELSE player_hand

DealerNow == IF program = "app" THEN session.dealer ELSE dealer_hand

C6_AsClaimed ==
    /\ Resolved =>
         (calculate_score(DealerNow) >= 17 \/ Len(DealerNow) > 2)
    /\ (Len(DealerNow) >= 2 /\ calculate_score(SubSeq(DealerNow, 1, 2)) >= 17) =>
         Len(DealerNow) = 2

(***************************************************************************)
(* C6, amended.  In every resolved round in which the player neither bust  *)
(* nor held a natural blackjack, the dealer's final score is at least 17,  *)
(* so a dealer whose two cards score below 17 has drawn beyond them; and   *)
(* in every round a dealer whose two cards score 17 or more draws no       *)
(* further card.                                                           *)
(***************************************************************************)
C6_DealerDrawsUnlessCutShort ==
    /\ (/\ Resolved
        /\ calculate_score(PlayerNow) <= 21
        /\ calculate_score(SubSeq(PlayerNow, 1, 2)) # 21) =>
         /\ calculate_score(DealerNow) >= 17
         /\ calculate_score(SubSeq(DealerNow, 1, 2)) < 17 => Len(DealerNow) > 2
    /\ (Len(DealerNow) >= 2 /\ calculate_score(SubSeq(DealerNow, 1, 2)) >= 17) =>
         Len(DealerNow) = 2

\* a dealer dealt 11 who drew before the round was resolved
C6_Witness ==
    /\ Resolved
    /\ calculate_score(PlayerNow) <= 21
    /\ calculate_score(SubSeq(PlayerNow, 1, 2)) # 21
    /\ calculate_score(SubSeq(DealerNow, 1, 2)) = 11
    /\ Len(DealerNow) > 2

(***************************************************************************)
(* C7.  A Hit or Stand request received while the round is resolved        *)
(* (game_over true, the state before the first Deal included) changes      *)
(* nothing: not the hands, the deck, the flag, the message or the          *)
(* counters.  A second Stand on a resolved round counts nothing.           *)
(***************************************************************************)
C7_Step ==
    (program = "app" /\ session.game_over /\ (Hit \/ Stand)) => session' = session

C7_ActionAfterResolutionIsNoOp == [][C7_Step]_vars

\* a round that Stand resolved as a win over a bust dealer: Stand is offered again
C7_Witness ==
    /\ program = "app"
    /\ session.game_over
    /\ calculate_score(session.dealer) > 21
    /\ calculate_score(session.player) <= 21
    /\ session.wins >= 1
    /\ ENABLED Stand

(***************************************************************************)
(* C8.  calculate_score returns the greatest total that is at most 21      *)
(* over all ways of counting each Ace as 1 or 11 when there is one, and    *)
(* otherwise the least total, every Ace counted as 1.                      *)
(***************************************************************************)
\* the totals of a hand over every way of counting its Aces
RECURSIVE Totals(_)
Totals(h) ==
    IF h = <<>> THEN {0}
    ELSE LET vs == IF Head(h)[1] = "Ace" THEN {1, 11} ELSE {VALUES[Head(h)[1]]}
         IN  {t + v : t \in Totals(Tail(h)), v \in vs}

BestTotal(h) ==
    LET ok == {t \in Totals(h) : t <= 21}
    IN  IF ok # {}
        THEN CHOOSE t \in ok : \A u \in ok : u <= t
        ELSE CHOOSE t \in Totals(h) : \A u \in Totals(h) : t <= u

C8_ScoreIsBestTotal == score = BestTotal(hand)

\* Ace, Ace, 9: both Aces counted as 1
C8_Witness ==
    /\ program = "calculate_score"
    /\ Len(hand) = 3
    /\ hand[1][1] = "Ace" /\ hand[2][1] = "Ace" /\ hand[3][1] = "9"
    /\ score = 21

(***************************************************************************)
(* C9.  deal_card never fails and removes exactly one card: from a deck of *)
(* n > 0 cards it returns a card of the deck and leaves the other n - 1;   *)
(* from an empty deck it returns a card of a full 52-card set and leaves   *)
(* the other 51.                                                           *)
(***************************************************************************)
C9_DealCardRemovesOne ==
    (program = "deal_card" /\ card # <<>>) =>
        /\ card \in AllCards
        /\ card \notin Elements(deck)
        /\ NoDuplicates(deck)
        /\ IF dealt_from = <<>>
           THEN /\ Len(deck) = 51
                /\ Elements(deck) \cup {card} = AllCards
           ELSE /\ Len(deck) = Len(dealt_from) - 1
                /\ card \in Elements(dealt_from)
                /\ Elements(deck) \cup {card} = Elements(dealt_from)

\* deal_card has just dealt from an empty deck
C9_Witness ==
    /\ program = "deal_card"
    /\ card # <<>>
    /\ dealt_from = <<>>
    /\ Len(deck) = 51

(***************************************************************************)
(* C10.  create_deck returns exactly 52 cards, one for every combination   *)
(* of rank and suit, and after any sequence of rounds, refills included,   *)
(* the live deck holds no card twice and never more than 52 cards.         *)
(***************************************************************************)
DeckNow == IF program = "app" THEN session.deck ELSE deck

C10_DeckIntegrity ==
    /\ \A fresh \in create_deck :
         /\ Len(fresh) = 52
         /\ NoDuplicates(fresh)
         /\ Elements(fresh) = AllCards
    /\ Cardinality(AllCards) = 52
    /\ NoDuplicates(DeckNow)
    /\ Len(DeckNow) <= 52
    /\ Elements(DeckNow) \subseteq AllCards

\* the deck was refilled during the round: it holds a card that is in a hand
C10_Witness ==
    /\ program = "app"
    /\ ~session.game_over
    /\ Elements(session.deck) \cap Elements(session.player) # {}

(***************************************************************************)
(* C11.  The deck created at the start of the session persists across      *)
(* rounds: starting a round never resets or replaces it.  The deck changes *)
(* only by deal_card removing its last card, or refilling it when it is    *)
(* empty at the draw, so every card that leaves the deck is in a hand      *)
(* after the step: no undealt card is discarded.                           *)
(***************************************************************************)
\* the cards of the hands after the step
HandsAfter ==
    IF program = "app"
    THEN Elements(session'.player) \cup Elements(session'.dealer)
    ELSE Elements(player_hand') \cup Elements(dealer_hand')

\* deck d became deck e by deal_card alone: cards were popped off the end,
\* through at most one refill of the emptied deck, and each went to a hand
DealtOnly(d, e) ==
    \/ /\ IsPrefix(e, d)
       /\ Elements(SubSeq(d, Len(e) + 1, Len(d))) \subseteq HandsAfter
    \/ \E fresh \in create_deck :
         /\ IsPrefix(e, fresh)
         /\ Len(e) < Len(fresh)
         /\ Elements(d) \subseteq HandsAfter
         /\ Elements(SubSeq(fresh, Len(e) + 1, Len(fresh))) \subseteq HandsAfter

C11_Step ==
    /\ program = "app" => DealtOnly(session.deck, session'.deck)
    /\ program = "blackjack" => DealtOnly(deck, deck')

C11_DeckPersists == [][C11_Step]_vars

(***************************************************************************)
(* C12.  calculate_score is invariant under reordering: exchanging any two *)
(* cards of a hand leaves its score unchanged.  Exchanges generate every   *)
(* reordering and every reordering of a hand of SpecScore is a hand of     *)
(* SpecScore, so any two hands that are permutations of the same cards     *)
(* score alike.                                                            *)
(***************************************************************************)
\* h with the cards at places i and j exchanged
Exchange(h, i, j) == [h EXCEPT ![i] = h[j], ![j] = h[i]]

C12_ScoreIgnoresOrder ==
    program = "calculate_score" =>
        \A i \in 1..Len(hand), j \in 1..Len(hand) :
            calculate_score(Exchange(hand, i, j)) = score

\* Ace, King, 5 scored 16, as 5, King, Ace is
C12_Witness ==
    /\ program = "calculate_score"
    /\ Len(hand) = 3
    /\ hand[1][1] = "Ace" /\ hand[2][1] = "King" /\ hand[3][1] = "5"
    /\ Exchange(hand, 1, 3) # hand
    /\ calculate_score(Exchange(hand, 1, 3)) = 16
    /\ score = 16

(***************************************************************************)
(* C13.  In player_turn an input that is neither hit nor stand only        *)
(* re-prompts: the player's hand, the dealer's hand, the deck and the      *)
(* record are unchanged and the round still waits for the player's choice. *)
(***************************************************************************)
InvalidChoice(ch) == ch \notin {"h", "hit", "s", "stand"}

\* the step of player_turn that reads an input
ReadsChoice ==
    /\ program = "blackjack"
    /\ pc = "player_turn"
    /\ <<choice, out, pc, deck, player_hand>>' # <<choice, out, pc, deck, player_hand>>

C13_Step ==
    (ReadsChoice /\ InvalidChoice(choice')) =>
        /\ player_hand' = player_hand
        /\ dealer_hand' = dealer_hand
        /\ deck' = deck
        /\ pc' = "player_turn"
        /\ <<wins, losses, pushes>>' = <<wins, losses, pushes>>
        /\ calculate_score(player_hand') < 21

C13_InvalidInputReprompts == [][C13_Step]_vars

\* an invalid line was read after a hit: the hand of three is still there
C13_Witness ==
    /\ program = "blackjack"
    /\ pc = "player_turn"
    /\ InvalidChoice(choice)
    /\ out = "Invalid input. Please enter 'h' to hit or 's' to stand."
    /\ Len(player_hand) = 3

(***************************************************************************)
(* C14.  Record accounting: no counter of wins, losses and pushes ever     *)
(* decreases; a step in which a round reaches its resolution adds exactly  *)
(* 1 to the counter of that round's outcome and nothing to the others; and *)
(* every other step (a hit that leaves the round open, a deal that opens   *)
(* the player's turn, a rejected action) leaves all three alone.  With the *)
(* record starting at 0 in both programs, wins + losses + pushes is the    *)
(* number of rounds resolved.                                              *)
(***************************************************************************)
\* the record of the running program
RecordNow ==
    IF program = "app" THEN <<session.wins, session.losses, session.pushes>>
    ELSE <<wins, losses, pushes>>

\* a step that resolves a round: in app.py any step that changes the session
\* and leaves it game_over (hit and stand return a resolved session as it
\* is); in blackjack.py the arrival at the Play again? prompt
EntersResolved ==
    \/ program = "app" /\ session' # session /\ session'.game_over
    \/ program = "blackjack" /\ pc # "again" /\ pc' = "again"

\* the outcome of the hands as the step leaves them
OutcomeAfter ==
    IF program = "app"
    THEN Outcome(calculate_score(session'.player), calculate_score(session'.dealer))
    ELSE Outcome(calculate_score(player_hand'), calculate_score(dealer_hand'))

C14_Step ==
    /\ \A i \in 1..3 : RecordNow'[i] >= RecordNow[i]
    /\ EntersResolved =>
         \A i \in 1..3 :
             RecordNow'[i] = RecordNow[i] +
                 (IF <<"Win", "Loss", "Push">>[i] = OutcomeAfter THEN 1 ELSE 0)
    /\ ~EntersResolved => RecordNow' = RecordNow

C14_RecordAccounting == [][C14_Step]_vars

\* a record holding a win, a loss and a push, reached in either program
C14_Witness ==
    /\ program \in {"app", "blackjack"}
    /\ Resolved
    /\ RecordNow[1] >= 1 /\ RecordNow[2] >= 1 /\ RecordNow[3] >= 1

(***************************************************************************)
(* C15.  Within a round a hand grows only by appending: a hit leaves the   *)
(* player's old hand as a prefix of the new one, which is exactly one card *)
(* longer, and leaves the dealer's hand alone unless it reaches 21 and     *)
(* stands; a dealer draw leaves the dealer's old hand as a prefix of the   *)
(* new one, one card longer per draw, and the dealer's turn leaves the     *)
(* player's hand alone; only a deal replaces a hand.                       *)
(***************************************************************************)
\* new is old with exactly one card appended
OneAppended(old, new) == Len(new) = Len(old) + 1 /\ IsPrefix(old, new)

\* app.py: hit and stand on an open round
C15_WebStep ==
    /\ (~session.game_over /\ Hit) =>
         /\ OneAppended(session.player, session'.player)
         /\ IsPrefix(session.dealer, session'.dealer)
         /\ calculate_score(session'.player) # 21 => session'.dealer = session.dealer
    /\ (~session.game_over /\ Stand) =>
         /\ session'.player = session.player
         /\ IsPrefix(session.dealer, session'.dealer)

\* blackjack.py: the player's loop and the dealer's loop
C15_CliStep ==
    /\ (pc = "player_turn" /\ choice' \in {"h", "hit"} /\ deck' # deck) =>
         OneAppended(player_hand, player_hand')
    /\ pc = "player_turn" =>
         /\ IsPrefix(player_hand, player_hand')
         /\ dealer_hand' = dealer_hand
    /\ (pc = "dealer_turn" /\ dealer_hand' # dealer_hand) =>
         OneAppended(dealer_hand, dealer_hand')
    /\ pc = "dealer_turn" => player_hand' = player_hand
    /\ pc \in {"determine_winner", "again"} =>
         player_hand' = player_hand /\ dealer_hand' = dealer_hand

C15_Step ==
    /\ program = "app" => C15_WebStep
    /\ program = "blackjack" => C15_CliStep
    /\ (~IsPrefix(PlayerNow, PlayerNow') \/ ~IsPrefix(DealerNow, DealerNow'))
           => (Deal \/ PlayRound)

C15_HandsOnlyAppend == [][C15_Step]_vars

\* a player who hit twice and a dealer who drew twice
C15_Witness ==
    /\ Resolved
    /\ Len(PlayerNow) = 4
    /\ Len(DealerNow) = 4

(***************************************************************************)
(* C16.  Whenever a round is open and waits for the player's decision      *)
(* (app.py: game_over is false; blackjack.py: player_turn is at its        *)
(* prompt), the player's hand has at least 2 cards and scores at most 20,  *)
(* and the dealer's hand has exactly 2 cards and does not score 21.        *)
(***************************************************************************)
\* the round of the running program waits for hit or stand
PlayerTurn ==
    \/ program = "app" /\ ~session.game_over
    \/ program = "blackjack" /\ pc = "player_turn"

C16_PlayerTurnInvariant ==
    PlayerTurn =>
        /\ Len(PlayerNow) >= 2
        /\ calculate_score(PlayerNow) <= 20
        /\ Len(DealerNow) = 2
        /\ calculate_score(DealerNow) # 21

\* the player hit twice and holds 20
C16_Witness ==
    /\ PlayerTurn
    /\ Len(PlayerNow) = 4
    /\ calculate_score(PlayerNow) = 20

(***************************************************************************)
(* C17.  Every round terminates.  The dealer's loop ends with a dealer     *)
(* score from 17 to 26: whatever card is drawn on a score below 17, the    *)
(* new score is at most 26 and the hand's total with every Ace at 1 has    *)
(* grown, so the loop cannot run on.  Every hit makes the player's total   *)
(* with every Ace at 1 grow, and it is at most 20 while the round is open, *)
(* so only finitely many hits fit.  Hence, when the player answers every   *)
(* open round with hit or stand, every dealt round is eventually resolved. *)
(***************************************************************************)
\* the total of a hand with every Ace counted 1
HardTotal(h) == SumValues(h) - 10 * CountAces(h)

\* the dealer's loop has just ended (app.py: _stand ran; blackjack.py: the
\* loop test failed)
DealerLoopEnds ==
    \/ WebResolves /\ calculate_score(session'.player) <= 21
    \/ program = "blackjack" /\ pc = "dealer_turn" /\ pc' = "determine_winner"

\* a hit in either program
HitStep ==
    \/ WebHitStep
    \/ /\ program = "blackjack" /\ pc = "player_turn"
       /\ player_hand' # player_hand

\* whatever card the dealer draws on a score below 17
C17_AnyDraw ==
    calculate_score(DealerNow) < 17 =>
        \A c \in AllCards :
            /\ calculate_score(Append(DealerNow, c)) <= 26
            /\ HardTotal(Append(DealerNow, c)) > HardTotal(DealerNow)

C17_Step ==
    /\ DealerLoopEnds => calculate_score(DealerNow') \in 17..26
    /\ HitStep => HardTotal(PlayerNow') > HardTotal(PlayerNow)
    /\ PlayerTurn => HardTotal(PlayerNow) <= 20

\* a round that was dealt and is not yet resolved
InRound ==
    \/ PlayerTurn
    \/ program = "blackjack" /\ pc \in {"dealer_turn", "determine_winner"}

C17_RoundsTerminate ==
    /\ []C17_AnyDraw
    /\ [][C17_Step]_vars
    /\ InRound ~> Resolved

\* a round resolved after two hits and two dealer draws
C17_Witness ==
    /\ Resolved
    /\ Len(PlayerNow) = 4
    /\ Len(DealerNow) = 4
    /\ calculate_score(PlayerNow) <= 21
    /\ calculate_score(DealerNow) \in 17..26

(***************************************************************************)
(* C18.  At every point of a round the cards of the player's hand, of the  *)
(* dealer's hand and of the deck are pairwise distinct: no (rank, suit)    *)
(* card occurs twice among them, also after the deck was refilled during   *)
(* the round.                                                              *)
(***************************************************************************)
\* hands have been dealt and the round is open or just resolved
DuringRound ==
    \/ program = "app" /\ Len(session.player) >= 2
    \/ program = "blackjack"
         /\ pc \in {"player_turn", "dealer_turn", "determine_winner", "again"}

C18_CardsDistinct ==
    DuringRound => NoDuplicates(PlayerNow \o DealerNow \o DeckNow)

(***************************************************************************)
(* C19.  The web driver (deal, hit, stand/_stand of app.py) and the        *)
(* command-line driver (play_round of blackjack.py) are equivalent: from   *)
(* the same deck and with the same hit/stand choices both draw the same    *)
(* cards into the same hands, resolve at the same choice, and yield the    *)
(* same outcome and the same single counter increment.                     *)
(***************************************************************************)
\* both drivers have played the round
BothPlayed == program = "drivers" /\ cli # NoRound

\* the record main keeps after one round with this result (lines 171-176)
RecordOf(r) ==
    <<IF r = 1 THEN 1 ELSE 0, IF r = -1 THEN 1 ELSE 0, IF r = 0 THEN 1 ELSE 0>>

C19_DriversEquivalent ==
    BothPlayed =>
        /\ web.game.player = cli.player
        /\ web.game.dealer = cli.dealer
        /\ web.game.deck = cli.deck
        /\ web.game.game_over
        /\ web.sent = cli.read
        /\ <<web.game.wins, web.game.losses, web.game.pushes>> = RecordOf(cli.result)

\* the drivers agree on every round that starts from 0 or from 4 or more cards
AgreeUnlessShortDeck ==
    (BothPlayed /\ Len(start) \notin 1..3) => C19_DriversEquivalent

=============================================================================
